---- MODULE Spec2Model ----
(***************************************************************************)
(* A model of BrainFuckInterpreter.cpp: the Pointer tape, the Command      *)
(* compiler generateSourceCode, the loop resolver skipLoop, interpret and  *)
(* the execution loop of main.                                             *)
(*                                                                         *)
(* Characters are one-character strings, cells and input/output bytes are  *)
(* numbers 0..255, positions in the compiled program are 0-based offsets   *)
(* from sourceCode.cbegin() (so `it = Len(sourceCode)` is cend()).         *)
(***************************************************************************)
EXTENDS Integers, Sequences, FiniteSets, TLC

VARIABLES
    src,        \* the bytes of the source file argv[1]
    stdin,      \* the bytes of std::cin not yet consumed
    pc,         \* where main is: "compile", "running", "halted", or how it died
    sourceCode, \* main's sourceCode: the vector<Command> generateSourceCode built
    it,         \* main's iterator into sourceCode, as an offset from cbegin()
    loopPos,    \* main's std::stack of iterators (offsets), top is the last element
    p,          \* main's Pointer: [mem_ |-> deque of cells, index_ |-> cursor]
    out         \* the bytes written to std::cout

vars == <<src, stdin, pc, sourceCode, it, loopPos, p, out>>

-----------------------------------------------------------------------------
(* Bounds of the model. *)

MaxLen == 4     \* the sources of Init: every byte string up to this length
MaxIn == 1      \* the inputs of Init: every byte string up to this length
MaxTape == 7    \* PointerIncr is not taken beyond this many cells
MaxOut == 3     \* Cout is not taken beyond this many output bytes
MaxProg == 6    \* ResolveInit: every bracket program up to this length
MaxCount == 258 \* ArithInit: repeat counts up to this value
MaxMove == 3    \* the distances the tape round trip is tried with
MaxLoopLen == 5 \* LoopInit: every source over the loop alphabet up to this length

-----------------------------------------------------------------------------
(* Command::ActionableCommands and the character classes. *)

PointerIncr == ">"
PointerDecr == "<"
CellValIncr == "+"
CellValDecr == "-"
Cout == "."
Cin == ","
LoopBegin == "["
LoopEnd == "]"

isLoopCommand(ch) == ch \in {LoopBegin, LoopEnd}

isCommand(ch) ==
    ch \in {LoopBegin, LoopEnd, PointerIncr, PointerDecr,
            CellValIncr, CellValDecr, Cout, Cin}

Command(ch, sz) == [command |-> ch, count |-> sz]

(* The whitespace std::ws / formatted extraction skips.  The model's byte   *)
(* alphabets hold one whitespace character, the space.                     *)
isSpaceChar(ch) == ch = " "
isSpaceByte(b) == b \in {9, 10, 11, 12, 13, 32}

-----------------------------------------------------------------------------
(* The Command compiler. *)

(* std::istream_iterator<char> reads the file with operator>>, which skips *)
(* whitespace: the compiler never sees a whitespace byte.                  *)
StremIter(file) == SelectSeq(file, LAMBDA ch : ~isSpaceChar(ch))

(* skipComment(beg, end): the first position >= beg holding a command, or  *)
(* end.  Positions in the character stream are 1-based, end = Len(s) + 1.  *)
RECURSIVE skipComment(_, _)
skipComment(s, beg) ==
    IF beg /= Len(s) + 1 /\ ~isCommand(s[beg])
    THEN skipComment(s, beg + 1)
    ELSE beg

(* Accumulate with a run that a comment ends: the loop tests *beg without  *)
(* calling skipComment.                                                    *)
RECURSIVE AccumulateNoSkip(_, _, _, _)
AccumulateNoSkip(s, beg, ch, count) ==
    IF beg /= Len(s) + 1 /\ s[beg] = ch
    THEN AccumulateNoSkip(s, beg + 1, ch, count + 1)
    ELSE <<beg, count>>

(* The inner loop of generateSourceCode that accumulates a run of ch:      *)
(* while ((beg = skipComment(beg, end)) != end and *beg == ch)             *)
(*     { ++count; ++beg; }   Returns <<beg, count>>.                       *)
RECURSIVE Accumulate(_, _, _, _)
Accumulate(s, beg, ch, count) ==
    LET b == skipComment(s, beg)
    IN  IF b /= Len(s) + 1 /\ s[b] = ch
        THEN Accumulate(s, b + 1, ch, count + 1)
        ELSE <<b, count>>

(* The outer loop of generateSourceCode; source_code is the vector built   *)
(* so far.  emplace_back(ch, count) runs at the end of every iteration.    *)
RECURSIVE generateLoop(_, _, _)
generateLoop(s, beg, source_code) ==
    IF beg = Len(s) + 1
    THEN source_code
    ELSE LET ch == s[beg]
         IN  IF isLoopCommand(ch)
             THEN generateLoop(s, beg + 1, Append(source_code, Command(ch, 1)))
             ELSE IF isCommand(ch)
             THEN LET r == Accumulate(s, beg, ch, 0)
                  IN  generateLoop(s, r[1], Append(source_code, Command(ch, r[2])))
             ELSE generateLoop(s, beg + 1, Append(source_code, Command(ch, 0)))

generateSourceCode(file) == generateLoop(StremIter(file), 1, <<>>)

-----------------------------------------------------------------------------
(* The Pointer class. *)

Zeros(n) == [k \in 1..n |-> 0]

PointerInit == [mem_ |-> Zeros(1), index_ |-> 0]

(* operator+= that resizes to index_ cells, one short. *)
PointerPlusShort(ptr, c) ==
    LET index == ptr.index_ + c
    IN  [mem_ |-> IF Len(ptr.mem_) <= index
                  THEN ptr.mem_ \o Zeros(index - Len(ptr.mem_))
                  ELSE ptr.mem_,
         index_ |-> index]

(* Pointer::operator+= : index_ += c, then mem_.resize(index_ + 1) when    *)
(* mem_.size() <= index_ (resize value-initializes the new cells).         *)
PointerPlus(ptr, c) ==
    LET index == ptr.index_ + c
    IN  [mem_ |-> IF Len(ptr.mem_) <= index
                  THEN ptr.mem_ \o Zeros(index + 1 - Len(ptr.mem_))
                  ELSE ptr.mem_,
         index_ |-> index]

(* operator-= without its assertion, as a build with NDEBUG has it. *)
PointerMinusPreNone(ptr, c) == TRUE

(* The precondition Pointer::operator-= asserts: index_ - c < index_ in unsigned  *)
(* arithmetic, which holds exactly when 1 <= c <= index_.                  *)
PointerMinusPre(ptr, c) == c /= 0 /\ c <= ptr.index_

(* operator-= that gives back the cells beyond the cursor. *)
PointerMinusShrink(ptr, c) ==
    [mem_ |-> SubSeq(ptr.mem_, 1, ptr.index_ - c + 1), index_ |-> ptr.index_ - c]

PointerMinus(ptr, c) == [ptr EXCEPT !.index_ = ptr.index_ - c]

(* Pointer::operator* : the cell under the cursor. *)
Deref(ptr) == ptr.mem_[ptr.index_ + 1]

Store(ptr, v) == [ptr EXCEPT !.mem_[ptr.index_ + 1] = v]

-----------------------------------------------------------------------------
(* interpret's cases. *)

(* operation that applies the operator once, whatever the count. *)
operationOnce(op, t, t2) ==
    IF op = "+" THEN (t + 1) % 256 ELSE (t + 255) % 256

(* operation that does not narrow the count before it adds: the cell       *)
(* saturates instead of wrapping.                                          *)
operationSaturate(op, t, t2) ==
    IF op = "+"
    THEN (IF t + t2 > 255 THEN 255 ELSE t + t2)
    ELSE (IF t - t2 < 0 THEN 0 ELSE t - t2)

(* operation<op>(t, t2): t += static_cast<char>(t2) or t -= ..., on a char: *)
(* the count is narrowed to 8 bits and the sum is narrowed to 8 bits.       *)
operation(op, t, t2) ==
    IF op = "+"
    THEN (t + (t2 % 256)) % 256
    ELSE (t + 256 - (t2 % 256)) % 256

(* std::cin >> *p, once: skip whitespace, then extract one character; at   *)
(* end of input the extraction fails and the cell keeps its value.         *)
RECURSIVE skipWs(_)
skipWs(inp) ==
    IF inp /= <<>> /\ isSpaceByte(Head(inp)) THEN skipWs(Tail(inp)) ELSE inp

(* for (i = 0; i != count; ++i) std::cin >> *p;  Returns <<cell, input>>.  *)
RECURSIVE CinLoop(_, _, _)
CinLoop(cell, inp, count) ==
    IF count = 0
    THEN <<cell, inp>>
    ELSE LET rest == skipWs(inp)
         IN  IF rest = <<>>
             THEN CinLoop(cell, rest, count - 1)
             ELSE CinLoop(Head(rest), Tail(rest), count - 1)

(* A Cout that writes the cell once, whatever the count. *)
CoutFillOnce(o, count, cell) == o \o <<cell>>

(* std::fill_n(ostream_iterator<unsigned char>(cout), count, *p) *)
CoutFill(o, count, cell) == o \o [k \in 1..count |-> cell]

-----------------------------------------------------------------------------
(* skipLoop. *)

(* The result of a scan that leaves the vector: reading past cend() is     *)
(* undefined, no position is returned.                                     *)
OutOfBounds == -1

(* A scan that stops at the first LoopEnd, blind to nested loops. *)
RECURSIVE skipLoopFirstEnd(_, _, _)
skipLoopFirstEnd(code, q, bracketCount) ==
    IF q >= Len(code)
    THEN OutOfBounds
    ELSE IF code[q + 1].command = LoopEnd
         THEN q
         ELSE skipLoopFirstEnd(code, q + 1, bracketCount)

(* A scan that stops at the end of the program and returns its last        *)
(* offset.                                                                 *)
RECURSIVE skipLoopClamp(_, _, _)
skipLoopClamp(code, q, bracketCount) ==
    IF q >= Len(code)
    THEN Len(code) - 1
    ELSE LET c == code[q + 1].command
             bc == IF c = LoopBegin THEN bracketCount + 1
                   ELSE IF c = LoopEnd THEN bracketCount - 1
                   ELSE bracketCount
         IN  IF bc /= 0 THEN skipLoopClamp(code, q + 1, bc) ELSE q

(* The do-while of skipLoop from offset q with the given bracketCount.     *)
(* main only calls skipLoop on a LoopBegin (the assert), so bracketCount   *)
(* is at least 1 before any decrement and the size_t never wraps.          *)
RECURSIVE skipLoopScan(_, _, _)
skipLoopScan(code, q, bracketCount) ==
    IF q >= Len(code)
    THEN OutOfBounds
    ELSE LET c == code[q + 1].command
             bc == IF c = LoopBegin THEN bracketCount + 1
                   ELSE IF c = LoopEnd THEN bracketCount - 1
                   ELSE bracketCount
         IN  IF bc /= 0 THEN skipLoopScan(code, q + 1, bc) ELSE (q + 1) - 1

(* skipLoop that returns p where the code returns p - 1. *)
skipLoopNoStepBack(code, q) ==
    IF skipLoopScan(code, q, 0) = OutOfBounds
    THEN OutOfBounds
    ELSE skipLoopScan(code, q, 0) + 1

skipLoop(code, q) == skipLoopScan(code, q, 0)

-----------------------------------------------------------------------------
(* The std::stack loopPos. *)

(* push that drops the position; pop that leaves the stack as it is. *)
pushNothing(stack, x) == stack
popNothing(stack) == stack

(* top that reads the oldest entry. *)
topBottom(stack) == stack[1]

push(stack, x) == Append(stack, x)
top(stack) == stack[Len(stack)]
pop(stack) == SubSeq(stack, 1, Len(stack) - 1)

-----------------------------------------------------------------------------
(* The inputs of a run. *)

SrcAlphabet ==
    {PointerIncr, PointerDecr, CellValIncr, CellValDecr, Cout, Cin,
     LoopBegin, LoopEnd, "a", " "}

InAlphabet == {65, 32}

SeqsUpTo(S, n) == UNION {[1..k -> S] : k \in 0..n}

Rep(ch, n) == [k \in 1..n |-> ch]

(* ++++++++[>++++++++<-]>+. *)
ProgA ==
    Rep("+", 8) \o <<"[", ">">> \o Rep("+", 8) \o <<"<", "-", "]", ">", "+", ".">>

(* ,.  and  +>>>>><<<<<.  and  ++[a[- >+<]][[]]>  *)
ProgEcho == <<",", ".">>
ProgMove == <<"+">> \o Rep(">", 5) \o Rep("<", 5) \o <<".">>
ProgNest ==
    <<"+", "+", "[", "a", "[", "-", " ", ">", "+", "<", "]", "]", "[", "[", "]", "]", ">">>

(* +[-]]  *)
ProgStray == <<"+", "[", "-", "]", "]">>

Scenarios == {ProgA, ProgEcho, ProgMove, ProgNest, ProgStray}

Sources == SeqsUpTo(SrcAlphabet, MaxLen) \cup Scenarios

Inputs == SeqsUpTo(InAlphabet, MaxIn)

-----------------------------------------------------------------------------
(* main. *)

Init ==
    /\ src \in Sources
    /\ stdin \in Inputs
    /\ pc = "compile"
    /\ sourceCode = <<>>
    /\ it = 0
    /\ loopPos = <<>>
    /\ p = PointerInit
    /\ out = <<>>

(* const auto sourceCode = generateSourceCode(StremIter{f}, StremIter{});  *)
(* auto it = sourceCode.cbegin();                                          *)
Compile ==
    /\ pc = "compile"
    /\ sourceCode' = generateSourceCode(src)
    /\ it' = 0
    /\ pc' = "running"
    /\ UNCHANGED <<src, stdin, loopPos, p, out>>

(* The loop test `it != end` holds and *it is the command to execute. *)
Running == pc = "running" /\ it < Len(sourceCode)

Cmd == sourceCode[it + 1]

(* `it != end` fails: main returns. *)
Halt ==
    /\ pc = "running"
    /\ it = Len(sourceCode)
    /\ pc' = "halted"
    /\ UNCHANGED <<src, stdin, sourceCode, it, loopPos, p, out>>

(* LoopBegin on a zero cell that logs the loop before it skips it. *)
LoopSkipPushes ==
    /\ pc = "running" /\ it < Len(sourceCode)
    /\ sourceCode[it + 1].command = LoopBegin
    /\ Deref(p) = 0
    /\ skipLoop(sourceCode, it) /= OutOfBounds
    /\ it' = skipLoop(sourceCode, it) + 1
    /\ loopPos' = push(loopPos, it)
    /\ UNCHANGED <<src, stdin, pc, sourceCode, p, out>>

(* LoopBegin on a zero cell: it = skipLoop(it); ++it. *)
LoopSkip ==
    /\ Running
    /\ Cmd.command = LoopBegin
    /\ Deref(p) = 0
    /\ skipLoop(sourceCode, it) /= OutOfBounds
    /\ it' = skipLoop(sourceCode, it) + 1
    /\ UNCHANGED <<src, stdin, pc, sourceCode, loopPos, p, out>>

(* LoopBegin on a zero cell with no matching LoopEnd: skipLoop reads past  *)
(* the end of the vector, which is undefined behaviour.  "scan_oob" marks  *)
(* that it began; the run's continuation (a fault, an abort, going on from *)
(* some position) is not modelled and no property is stated of it.         *)
LoopSkipOutOfBounds ==
    /\ Running
    /\ Cmd.command = LoopBegin
    /\ Deref(p) = 0
    /\ skipLoop(sourceCode, it) = OutOfBounds
    /\ pc' = "scan_oob"
    /\ UNCHANGED <<src, stdin, sourceCode, it, loopPos, p, out>>

(* LoopBegin on a nonzero cell that increments `it` before it logs it. *)
LoopEnterPushesNext ==
    /\ pc = "running" /\ it < Len(sourceCode)
    /\ sourceCode[it + 1].command = LoopBegin
    /\ Deref(p) /= 0
    /\ loopPos' = push(loopPos, it + 1)
    /\ it' = it + 1
    /\ UNCHANGED <<src, stdin, pc, sourceCode, p, out>>

(* LoopBegin on a nonzero cell: loopPos.push(it); ++it. *)
LoopEnter ==
    /\ Running
    /\ Cmd.command = LoopBegin
    /\ Deref(p) /= 0
    /\ loopPos' = push(loopPos, it)
    /\ it' = it + 1
    /\ UNCHANGED <<src, stdin, pc, sourceCode, p, out>>

(* LoopEnd that pops and goes on to the next command. *)
LoopCloseFallThrough ==
    /\ pc = "running" /\ it < Len(sourceCode)
    /\ sourceCode[it + 1].command = LoopEnd
    /\ loopPos /= <<>>
    /\ it' = it + 1
    /\ loopPos' = pop(loopPos)
    /\ UNCHANGED <<src, stdin, pc, sourceCode, p, out>>

(* LoopEnd: it = loopPos.top(); loopPos.pop(); `it` is not incremented. *)
LoopClose ==
    /\ Running
    /\ Cmd.command = LoopEnd
    /\ loopPos /= <<>>
    /\ it' = top(loopPos)
    /\ loopPos' = pop(loopPos)
    /\ UNCHANGED <<src, stdin, pc, sourceCode, p, out>>

(* LoopEnd with an empty stack: assert(not loopPos.empty()) fails. *)
LoopCloseAssert ==
    /\ Running
    /\ Cmd.command = LoopEnd
    /\ loopPos = <<>>
    /\ pc' = "assert_loopPos"
    /\ UNCHANGED <<src, stdin, sourceCode, it, loopPos, p, out>>

(* interpret, case PointerIncr: p += count. *)
InterpretPointerIncr ==
    /\ Running
    /\ Cmd.command = PointerIncr
    /\ p.index_ + Cmd.count < MaxTape
    /\ p' = PointerPlus(p, Cmd.count)
    /\ it' = it + 1
    /\ UNCHANGED <<src, stdin, pc, sourceCode, loopPos, out>>

(* interpret, case PointerDecr: p -= count. *)
InterpretPointerDecr ==
    /\ Running
    /\ Cmd.command = PointerDecr
    /\ PointerMinusPre(p, Cmd.count)
    /\ p' = PointerMinus(p, Cmd.count)
    /\ it' = it + 1
    /\ UNCHANGED <<src, stdin, pc, sourceCode, loopPos, out>>

(* interpret, case PointerDecr, when the assertion of operator-= fails. *)
InterpretPointerDecrAssert ==
    /\ Running
    /\ Cmd.command = PointerDecr
    /\ ~PointerMinusPre(p, Cmd.count)
    /\ pc' = "assert_index"
    /\ UNCHANGED <<src, stdin, sourceCode, it, loopPos, p, out>>

(* interpret, case CellValIncr: operation<'+'> on *p and count. *)
InterpretCellValIncr ==
    /\ Running
    /\ Cmd.command = CellValIncr
    /\ p' = Store(p, operation("+", Deref(p), Cmd.count))
    /\ it' = it + 1
    /\ UNCHANGED <<src, stdin, pc, sourceCode, loopPos, out>>

(* interpret, case CellValDecr: operation<'-'> on *p and count. *)
InterpretCellValDecr ==
    /\ Running
    /\ Cmd.command = CellValDecr
    /\ p' = Store(p, operation("-", Deref(p), Cmd.count))
    /\ it' = it + 1
    /\ UNCHANGED <<src, stdin, pc, sourceCode, loopPos, out>>

(* interpret, case Cout. *)
InterpretCout ==
    /\ Running
    /\ Cmd.command = Cout
    /\ Len(out) + Cmd.count <= MaxOut
    /\ out' = CoutFill(out, Cmd.count, Deref(p))
    /\ it' = it + 1
    /\ UNCHANGED <<src, stdin, pc, sourceCode, loopPos, p>>

(* interpret, case Cin. *)
InterpretCin ==
    /\ Running
    /\ Cmd.command = Cin
    /\ LET r == CinLoop(Deref(p), stdin, Cmd.count)
       IN  /\ p' = Store(p, r[1])
           /\ stdin' = r[2]
    /\ it' = it + 1
    /\ UNCHANGED <<src, pc, sourceCode, loopPos, out>>

(* interpret, default: the command is a comment, interpret returns false   *)
(* and main goes on to the next command.                                   *)
InterpretDefault ==
    /\ Running
    /\ ~isCommand(Cmd.command)
    /\ it' = it + 1
    /\ UNCHANGED <<src, stdin, pc, sourceCode, loopPos, p, out>>

Next ==
    \/ Compile
    \/ Halt
    \/ LoopSkip
    \/ LoopSkipOutOfBounds
    \/ LoopEnter
    \/ LoopClose
    \/ LoopCloseAssert
    \/ InterpretPointerIncr
    \/ InterpretPointerDecr
    \/ InterpretPointerDecrAssert
    \/ InterpretCellValIncr
    \/ InterpretCellValDecr
    \/ InterpretCout
    \/ InterpretCin
    \/ InterpretDefault

Spec == Init /\ [][Next]_vars

-----------------------------------------------------------------------------
(* skipLoop on its own: the engine stands on any LoopBegin of any program  *)
(* over brackets and one other command, with a zero cell under the cursor. *)

BracketAlphabet == {LoopBegin, LoopEnd, CellValIncr}

ResolveInit ==
    /\ src \in SeqsUpTo(BracketAlphabet, MaxProg)
    /\ stdin = <<>>
    /\ pc = "running"
    /\ sourceCode = generateSourceCode(src)
    /\ it \in {q \in 0..(Len(sourceCode) - 1) : sourceCode[q + 1].command = LoopBegin}
    /\ loopPos = <<>>
    /\ p = PointerInit
    /\ out = <<>>

ResolveNext == LoopSkip \/ LoopSkipOutOfBounds

ResolveSpec == ResolveInit /\ [][ResolveNext]_vars

(* operation on its own: the engine stands on a CellValIncr or CellValDecr *)
(* of any count, with any value in the cell under the cursor.              *)

ArithInit ==
    /\ \E ch \in {CellValIncr, CellValDecr} : \E n \in 1..MaxCount :
          /\ src = Rep(ch, n)
          /\ sourceCode = <<Command(ch, n)>>
    /\ stdin = <<>>
    /\ pc = "running"
    /\ it = 0
    /\ loopPos = <<>>
    /\ \E v \in 0..255 : p = [mem_ |-> <<v>>, index_ |-> 0]
    /\ out = <<>>

ArithNext == InterpretCellValIncr \/ InterpretCellValDecr

ArithSpec == ArithInit /\ [][ArithNext]_vars

-----------------------------------------------------------------------------
(* Reference notions the properties are stated with. *)

(* The commands of a program, comments left out. *)
Commands(code) == SelectSeq(code, LAMBDA c : isCommand(c.command))

(* The canonical character stream of a program: count copies of each       *)
(* command's character, in order.                                          *)
RECURSIVE Serialize(_)
Serialize(code) ==
    IF code = <<>>
    THEN <<>>
    ELSE Rep(Head(code).command, Head(code).count) \o Serialize(Tail(code))

(* The number of commands ch at the offsets a..b of a program. *)
Count(code, a, b, ch) == Cardinality({k \in a..b : code[k + 1].command = ch})

(* The offsets a..b of a program hold balanced brackets. *)
Balanced(code, a, b) ==
    /\ Count(code, a, b, LoopBegin) = Count(code, a, b, LoopEnd)
    /\ \A m \in a..b : Count(code, a, m, LoopBegin) >= Count(code, a, m, LoopEnd)

WellNested(code) == Balanced(code, 0, Len(code) - 1)

(* Offset j holds the LoopEnd that matches the LoopBegin at offset i. *)
IsMatch(code, i, j) ==
    /\ j > i
    /\ j < Len(code)
    /\ code[j + 1].command = LoopEnd
    /\ Balanced(code, i + 1, j - 1)

Compiled == pc /= "compile"

-----------------------------------------------------------------------------
(* C1: the commands of the compiled program are the run-length encoding of *)
(* the source's operator characters: written out count times each they are *)
(* the source with its comments removed, every count is at least 1, every  *)
(* bracket has count 1, and two neighbouring commands of the same kind are *)
(* brackets (a run of a non-loop operator, comments inside it or not, is   *)
(* one Instruction).                                                       *)
C1_RunLengthMerging ==
    Compiled =>
        LET K == Commands(sourceCode)
        IN  /\ Serialize(K) = SelectSeq(src, isCommand)
            /\ \A i \in 1..Len(K) :
                  /\ K[i].count >= 1
                  /\ isLoopCommand(K[i].command) => K[i].count = 1
            /\ \A i \in 1..(Len(K) - 1) :
                  K[i].command = K[i + 1].command => isLoopCommand(K[i].command)

C1_Witness ==
    /\ pc = "halted"
    /\ src = <<"+", "a", " ", "+">>
    /\ sourceCode = <<Command("+", 2)>>

(* C2: the run of ++++++++[>++++++++<-]>+. ends with the output 65. *)
C2_ProgAOutputs65 ==
    (src = ProgA /\ pc \notin {"compile", "running"}) => (pc = "halted" /\ out = <<65>>)

C2_Witness ==
    /\ src = ProgA
    /\ pc = "halted"
    /\ out = <<65>>
    /\ loopPos = <<>>

(* C3: a source of comment bytes only compiles to the empty program, and   *)
(* its run halts with no output and the tape as it was.                    *)
C3_CommentsCompileToNothing ==
    (Compiled /\ \A i \in 1..Len(src) : ~isCommand(src[i])) =>
        /\ sourceCode = <<>>
        /\ pc = "halted" => (out = <<>> /\ p = PointerInit)

(* C4: every Instruction of the compiled program is one of the eight       *)
(* operators with a count of at least 1 (1 for a bracket), and the engine  *)
(* never stands on a command that interpret's default branch takes.        *)
C4_InstructionInvariant ==
    Compiled =>
        /\ \A i \in 1..Len(sourceCode) :
              /\ isCommand(sourceCode[i].command)
              /\ sourceCode[i].count >= 1
              /\ isLoopCommand(sourceCode[i].command) => sourceCode[i].count = 1
        /\ ~(Running /\ ~isCommand(Cmd.command))

(* C5: compiling the canonical character stream of the compiled program    *)
(* gives the compiled program again.                                       *)
C5_CompileRoundTrip ==
    Compiled => generateSourceCode(Serialize(sourceCode)) = sourceCode

(* C6: CellValIncr with count n leaves (v + n) mod 256 in the cell that    *)
(* held v, CellValDecr leaves (v - n) mod 256, and the engine goes on.     *)
C6_CellArithmeticWraps ==
    [][/\ (Running /\ Cmd.command = CellValIncr) =>
              /\ Deref(p') = (Deref(p) + Cmd.count) % 256
              /\ pc' = "running"
              /\ it' = it + 1
       /\ (Running /\ Cmd.command = CellValDecr) =>
              /\ Deref(p') = (Deref(p) - Cmd.count) % 256
              /\ pc' = "running"
              /\ it' = it + 1]_vars

C6_Witness ==
    /\ sourceCode = <<Command(CellValIncr, 257)>>
    /\ it = 1
    /\ Deref(p) = 0

(* C7: a skip from a LoopBegin that has a matching LoopEnd lands one past  *)
(* that LoopEnd, and a skip that returns lands one past a LoopEnd that     *)
(* matches.                                                                *)
C7_SkipLoopFindsMatch ==
    [][(Running /\ Cmd.command = LoopBegin /\ Deref(p) = 0) =>
          /\ \A j \in 0..(Len(sourceCode) - 1) :
                IsMatch(sourceCode, it, j) => (pc' = "running" /\ it' = j + 1)
          /\ pc' = "running" => IsMatch(sourceCode, it, it' - 1)]_vars

C7_Witness ==
    /\ src = <<"[", "+", "[", "]", "+", "]">>
    /\ it = 6
    /\ pc = "running"

(* C8: with well-nested brackets no LoopEnd meets an empty stack, no skip  *)
(* leaves the program, and `it` stays within 0..Len(sourceCode).           *)
C8_WellNestedIsSafe ==
    (Compiled /\ WellNested(sourceCode)) =>
        /\ pc \notin {"assert_loopPos", "scan_oob"}
        /\ it \in 0..Len(sourceCode)
        /\ \A k \in 1..Len(loopPos) :
              /\ loopPos[k] \in 0..(Len(sourceCode) - 1)
              /\ sourceCode[loopPos[k] + 1].command = LoopBegin

C8_Witness ==
    /\ src = ProgNest
    /\ pc = "halted"
    /\ p.mem_ = <<0, 2>>

(* C9: the stack is empty before the run and empty again when the run of  *)
(* a well-nested program has halted.                                      *)
C9_StackEmptyAtEnds ==
    /\ pc = "compile" => loopPos = <<>>
    /\ (pc = "halted" /\ WellNested(sourceCode)) => loopPos = <<>>

C9_Witness ==
    /\ src = <<"+", "[", "-", "]">>
    /\ pc = "halted"
    /\ loopPos = <<>>
    /\ Deref(p) = 0

(* C10: the cursor is always an index of the materialized tape, and the    *)
(* cells an advance materializes hold 0.                                   *)
C10_CursorInTape ==
    /\ [](p.index_ >= 0 /\ p.index_ < Len(p.mem_))
    /\ [][Len(p'.mem_) > Len(p.mem_) =>
             /\ \A k \in (Len(p.mem_) + 1)..Len(p'.mem_) : p'.mem_[k] = 0
             /\ Len(p'.mem_) = p'.index_ + 1]_vars

C10_Witness ==
    /\ src = ProgMove
    /\ pc = "halted"
    /\ Len(p.mem_) = 6
    /\ p.index_ = 0

C12_MoveRoundTrip ==
    /\ [](\A n \in 1..MaxMove :
             LET q == PointerPlus(p, n)
                 r == PointerMinus(q, n)
             IN  /\ PointerMinusPre(q, n)
                 /\ r.index_ = p.index_
                 /\ Len(r.mem_) >= Len(p.mem_)
                 /\ SubSeq(r.mem_, 1, Len(p.mem_)) = p.mem_
                 /\ Deref(r) = Deref(p))
    /\ []((src = ProgMove /\ pc = "halted") =>
             (p = [mem_ |-> <<1, 0, 0, 0, 0, 0>>, index_ |-> 0] /\ out = <<1>>))
    /\ [][/\ Len(p'.mem_) >= Len(p.mem_)
          /\ (Running /\ Cmd.command \in {PointerIncr, PointerDecr}) =>
                SubSeq(p'.mem_, 1, Len(p.mem_)) = p.mem_]_vars

C12_Witness ==
    /\ src = ProgMove
    /\ pc = "halted"
    /\ out = <<1>>
    /\ p.index_ = 0

(* Runs of the sources that loop: brackets, cell arithmetic and moves, no  *)
(* input or output.                                                        *)
LoopAlphabet ==
    {LoopBegin, LoopEnd, CellValIncr, CellValDecr, PointerIncr, PointerDecr}

LoopInit ==
    /\ src \in SeqsUpTo(LoopAlphabet, MaxLoopLen)
    /\ stdin = <<>>
    /\ pc = "compile"
    /\ sourceCode = <<>>
    /\ it = 0
    /\ loopPos = <<>>
    /\ p = PointerInit
    /\ out = <<>>

LoopNext ==
    \/ Compile
    \/ Halt
    \/ LoopSkip
    \/ LoopSkipOutOfBounds
    \/ LoopEnter
    \/ LoopClose
    \/ LoopCloseAssert
    \/ InterpretPointerIncr
    \/ InterpretPointerDecr
    \/ InterpretPointerDecrAssert
    \/ InterpretCellValIncr
    \/ InterpretCellValDecr

LoopSpec == LoopInit /\ [][LoopNext]_vars

(* The LoopBegin at offset L has a matching LoopEnd. *)
HasMatch(code, L) == \E j \in 0..(Len(code) - 1) : IsMatch(code, L, j)

(* The engine enters the loop at offset L: LoopBegin with a nonzero cell. *)
EntersLoop(L) ==
    /\ Running
    /\ it = L
    /\ Cmd.command = LoopBegin
    /\ HasMatch(sourceCode, L)
    /\ Deref(p) /= 0

(* The engine tests the loop at offset L and finds the cell zero. *)
ZeroTest(L) == Running /\ it = L /\ Deref(p) = 0

(* C13: once the engine has entered a loop, it reaches Halted only if a    *)
(* later test of that loop finds the current Cell zero: a loop whose body  *)
(* never leaves a zero for the test never lets the run halt.  (A run that  *)
(* scans out of the program is outside the statement: nothing is known of  *)
(* what it does next.)                                                     *)
C13_LoopWithoutZeroNeverHalts ==
    \A L \in 0..(MaxLoopLen - 1) :
        [](EntersLoop(L) =>
              (<>ZeroTest(L) \/ <>(pc = "scan_oob") \/ [](pc /= "halted")))

C13_Witness ==
    /\ src = <<"+", "[", "-", "+", "]">>
    /\ pc = "running"
    /\ loopPos = <<1>>
    /\ it = 4
    /\ Deref(p) = 1

(* C14, as claimed: executing a LoopBegin that has no matching LoopEnd     *)
(* makes skipLoop scan out of the program (so the run does not go on to    *)
(* Halted).                                                                *)
C14_UnmatchedOpenAlwaysScans ==
    [][(Running /\ Cmd.command = LoopBegin /\ ~HasMatch(sourceCode, it)) =>
          pc' = "scan_oob"]_vars

(* C14, amended: executing a LoopBegin that has no matching LoopEnd scans  *)
(* out of the program when the current Cell is zero; when the Cell is      *)
(* nonzero nothing is scanned, the position is pushed and the run goes on  *)
(* with the next command.                                                  *)
C14_UnmatchedOpenScansOnZero ==
    [][(Running /\ Cmd.command = LoopBegin /\ ~HasMatch(sourceCode, it)) =>
          IF Deref(p) = 0
          THEN pc' = "scan_oob" /\ UNCHANGED <<it, loopPos, p, out, stdin>>
          ELSE /\ pc' = "running"
               /\ loopPos' = Append(loopPos, it)
               /\ it' = it + 1
               /\ UNCHANGED <<p, out, stdin>>]_vars

(* Both cases: the run of [ has scanned out of the program, the run of +[  *)
(* has halted with the unmatched LoopBegin still on the stack.             *)
C14_Witness ==
    \/ src = <<"[">> /\ pc = "scan_oob"
    \/ src = <<"+", "[">> /\ pc = "halted" /\ loopPos = <<1>>

(* The LoopEnd at offset j has no matching LoopBegin. *)
UnmatchedClose(code, j) ==
    /\ code[j + 1].command = LoopEnd
    /\ ~\E i \in 0..(j - 1) : code[i + 1].command = LoopBegin /\ IsMatch(code, i, j)

(* C15: whenever the engine stands on a LoopEnd that has no matching       *)
(* LoopBegin the stack is empty, and the step it takes there is the        *)
(* failing assertion: nothing is popped and the run goes no further.       *)
C15_UnmatchedCloseAborts ==
    /\ []((Running /\ UnmatchedClose(sourceCode, it)) => loopPos = <<>>)
    /\ [][(Running /\ UnmatchedClose(sourceCode, it)) =>
             (pc' = "assert_loopPos" /\ UNCHANGED <<it, loopPos, p, out, stdin>>)]_vars

C15_Witness ==
    /\ src = ProgStray
    /\ pc = "assert_loopPos"
    /\ it = 4
    /\ loopPos = <<>>
    /\ p.mem_ = <<0>>

(* C16: a Cin of count n with at least n bytes of input left consumes the  *)
(* next n bytes, leaves the n-th of them in the current cell, changes no   *)
(* other cell and advances `it` by 1.                                      *)
C16_InputReadsBytes ==
    [][(Running /\ Cmd.command = Cin /\ Len(stdin) >= Cmd.count) =>
          /\ stdin' = SubSeq(stdin, Cmd.count + 1, Len(stdin))
          /\ p' = Store(p, stdin[Cmd.count])
          /\ it' = it + 1
          /\ pc' = "running"]_vars

(* C17: a LoopEnd executed with a nonempty stack removes exactly the top   *)
(* entry and sets `it` to it without incrementing; that position is the    *)
(* LoopBegin matching this LoopEnd, so the next command executed is that   *)
(* LoopBegin, testing the current cell again; tape, output and input are   *)
(* unchanged.                                                              *)
C17_LoopCloseStep ==
    [][(Running /\ Cmd.command = LoopEnd /\ loopPos /= <<>>) =>
          /\ it' = loopPos[Len(loopPos)]
          /\ loopPos' = SubSeq(loopPos, 1, Len(loopPos) - 1)
          /\ Len(loopPos') = Len(loopPos) - 1
          /\ pc' = "running"
          /\ it' < Len(sourceCode)
          /\ sourceCode[it' + 1].command = LoopBegin
          /\ IsMatch(sourceCode, it', it)
          /\ UNCHANGED <<p, out, stdin>>]_vars

C17_Witness ==
    /\ src = ProgNest
    /\ pc = "running"
    /\ it = 3
    /\ loopPos = <<1>>
    /\ p.mem_ = <<1, 1>>

(* C18: a LoopBegin on a zero cell whose matching LoopEnd is at offset j   *)
(* moves `it` to j + 1 in that one step (no command of the body runs) and  *)
(* leaves tape, output, input and stack alone; a LoopBegin on a nonzero    *)
(* cell pushes exactly its own offset and moves `it` by 1, leaving tape,   *)
(* output and input alone.                                                 *)
C18_LoopOpenStep ==
    [][(Running /\ Cmd.command = LoopBegin) =>
          IF Deref(p) = 0
          THEN \A j \in 0..(Len(sourceCode) - 1) :
                  IsMatch(sourceCode, it, j) =>
                      /\ it' = j + 1
                      /\ pc' = "running"
                      /\ UNCHANGED <<p, out, stdin, loopPos>>
          ELSE /\ loopPos' = loopPos \o <<it>>
               /\ it' = it + 1
               /\ pc' = "running"
               /\ UNCHANGED <<p, out, stdin>>]_vars

C18_Witness ==
    /\ src = ProgNest
    /\ pc = "running"
    /\ it = 14
    /\ loopPos = <<>>
    /\ p = [mem_ |-> <<0, 2>>, index_ |-> 0]

-----------------------------------------------------------------------------
(* The engine with a precomputed match table: the same program, tape,      *)
(* input and output, no position stack.  A LoopBegin on a zero cell jumps  *)
(* to one past its table entry, a LoopEnd jumps to its table entry, every  *)
(* other command goes through interpret.                                   *)

(* The table entry of the bracket at offset i: the offset of its partner. *)
TableEntry(code, i) ==
    IF code[i + 1].command = LoopBegin
    THEN CHOOSE j \in 0..(Len(code) - 1) : IsMatch(code, i, j)
    ELSE CHOOSE j \in 0..(Len(code) - 1) : IsMatch(code, j, i)

TableLoopBegin ==
    /\ Running
    /\ Cmd.command = LoopBegin
    /\ it' = IF Deref(p) = 0 THEN TableEntry(sourceCode, it) + 1 ELSE it + 1
    /\ UNCHANGED <<src, stdin, pc, sourceCode, p, out>>

TableLoopEnd ==
    /\ Running
    /\ Cmd.command = LoopEnd
    /\ it' = TableEntry(sourceCode, it)
    /\ UNCHANGED <<src, stdin, pc, sourceCode, p, out>>

TableInterpret ==
    \/ InterpretPointerIncr
    \/ InterpretPointerDecr
    \/ InterpretPointerDecrAssert
    \/ InterpretCellValIncr
    \/ InterpretCellValDecr
    \/ InterpretCout
    \/ InterpretCin
    \/ InterpretDefault

TableNext == Halt \/ TableLoopBegin \/ TableLoopEnd \/ TableInterpret

(* C19: on a well-nested program every step of main's engine is the step   *)
(* the table engine takes from the same program position, tape, input and  *)
(* output, so the two produce the same sequence of states; and whenever    *)
(* main stands on a LoopEnd the top of its stack is the table's entry.     *)
C19_JumpTableEquivalence ==
    /\ []((Compiled /\ WellNested(sourceCode) /\ Running /\ Cmd.command = LoopEnd) =>
             (loopPos /= <<>> /\ loopPos[Len(loopPos)] = TableEntry(sourceCode, it)))
    /\ [][(Compiled /\ WellNested(sourceCode)) => TableNext]_vars

C19_Witness ==
    /\ src = ProgNest
    /\ pc = "halted"
    /\ p = [mem_ |-> <<0, 2>>, index_ |-> 1]
    /\ loopPos = <<>>

-----------------------------------------------------------------------------
(* The source interpreted one operator character at a time: main's loop on *)
(* the program that holds one command of count 1 for every operator        *)
(* character of the source, comments left out.                             *)

SourceOps(file) == SelectSeq(StremIter(file), isCommand)

UnitProgram(file) ==
    [k \in 1..Len(SourceOps(file)) |-> Command(SourceOps(file)[k], 1)]

(* The state of that run as a record, and one iteration of main's loop on  *)
(* it.  A run that has ended stays where it is.                            *)
UnitInterpret(r, ch) ==
    IF ch = PointerIncr
    THEN [r EXCEPT !.p = PointerPlus(r.p, 1), !.it = r.it + 1]
    ELSE IF ch = PointerDecr
    THEN (IF PointerMinusPre(r.p, 1)
          THEN [r EXCEPT !.p = PointerMinus(r.p, 1), !.it = r.it + 1]
          ELSE [r EXCEPT !.pc = "assert_index"])
    ELSE IF ch = CellValIncr
    THEN [r EXCEPT !.p = Store(r.p, operation("+", Deref(r.p), 1)), !.it = r.it + 1]
    ELSE IF ch = CellValDecr
    THEN [r EXCEPT !.p = Store(r.p, operation("-", Deref(r.p), 1)), !.it = r.it + 1]
    ELSE IF ch = Cout
    THEN [r EXCEPT !.out = CoutFill(r.out, 1, Deref(r.p)), !.it = r.it + 1]
    ELSE [r EXCEPT !.p = Store(r.p, CinLoop(Deref(r.p), r.stdin, 1)[1]),
                   !.stdin = CinLoop(Deref(r.p), r.stdin, 1)[2],
                   !.it = r.it + 1]

UnitStep(U, r) ==
    IF r.pc /= "running"
    THEN r
    ELSE IF r.it = Len(U)
    THEN [r EXCEPT !.pc = "halted"]
    ELSE IF U[r.it + 1].command = LoopBegin
    THEN (IF Deref(r.p) /= 0
          THEN [r EXCEPT !.loopPos = push(r.loopPos, r.it), !.it = r.it + 1]
          ELSE IF skipLoop(U, r.it) = OutOfBounds
          THEN [r EXCEPT !.pc = "scan_oob"]
          ELSE [r EXCEPT !.it = skipLoop(U, r.it) + 1])
    ELSE IF U[r.it + 1].command = LoopEnd
    THEN (IF r.loopPos = <<>>
          THEN [r EXCEPT !.pc = "assert_loopPos"]
          ELSE [r EXCEPT !.it = top(r.loopPos), !.loopPos = pop(r.loopPos)])
    ELSE UnitInterpret(r, U[r.it + 1].command)

RECURSIVE UnitSteps(_, _, _)
UnitSteps(U, r, n) == IF n = 0 THEN r ELSE UnitSteps(U, UnitStep(U, r), n - 1)

(* The number of operator characters the first i commands of a program     *)
(* stand for, and the state of main seen as a state of the run above.      *)
RECURSIVE UnitOffset(_, _)
UnitOffset(code, i) ==
    IF i = 0 THEN 0 ELSE UnitOffset(code, i - 1) + code[i].count

Abstraction ==
    [it      |-> UnitOffset(sourceCode, it),
     loopPos |-> [k \in 1..Len(loopPos) |-> UnitOffset(sourceCode, loopPos[k])],
     p       |-> p,
     out     |-> out,
     stdin   |-> stdin,
     pc      |-> pc]

(* What the character-at-a-time run does while main takes its next step:   *)
(* as many iterations as the command under `it` has characters, or the one *)
(* that ends the run.                                                      *)
Reference ==
    UnitSteps(UnitProgram(src), Abstraction,
              IF it = Len(sourceCode) THEN 1 ELSE Cmd.count)

Observed(r) ==
    [tape |-> r.p.mem_, cursor |-> r.p.index_, out |-> r.out,
     stdin |-> r.stdin, outcome |-> r.pc]

ObservedButCursor(r) ==
    [tape |-> r.p.mem_, out |-> r.out, stdin |-> r.stdin, outcome |-> r.pc]

RunLengthStep == Compiled /\ WellNested(sourceCode) /\ pc = "running"

(* C20 as stated: on a well-nested source every step of main leaves the    *)
(* tape, cursor address, output, unread input and outcome that the         *)
(* character-at-a-time run has after the characters of that command, and   *)
(* while the run goes on the two stand at the same place of the source.    *)
C20_RunLengthPreservesAll ==
    [][RunLengthStep =>
          /\ Observed(Abstraction') = Observed(Reference)
          /\ (pc' = "running" => Abstraction' = Reference)]_vars

(* C20 amended: the same, except that when a retreat's assertion fails the *)
(* cursor address is not compared.  The compiled program stands for the    *)
(* operator characters of the source, in order.                            *)
C20_RunLengthPreservesRun ==
    /\ [](Compiled => Serialize(Commands(sourceCode)) = SourceOps(src))
    /\ [][RunLengthStep =>
             IF pc' = "assert_index"
             THEN ObservedButCursor(Abstraction') = ObservedButCursor(Reference)
             ELSE Abstraction' = Reference]_vars

C20_Witness ==
    /\ src = <<"+", "+", ".", ".">>
    /\ sourceCode = <<Command("+", 2), Command(".", 2)>>
    /\ pc = "halted"
    /\ out = <<2, 2>>

====
